---- MODULE Spec2Model ----
(***************************************************************************)
(* Model of easylogger (src/easylogger.h): Logger objects linked by        *)
(* _parent pointers, their _level/_stream/_format fields, the LogSink      *)
(* instances of one log statement and the EASY_LOG / EASY_ASSERT macros.   *)
(* The bodies declared `inline` in the header (IsLevel, Log, Stream and    *)
(* Format setters, WriteLog, ~LogSink) live in easylogger-impl.h; they are *)
(* modelled from the documentation of their declarations and, where the    *)
(* header is silent, from the written design.                              *)
(***************************************************************************)
EXTENDS Integers, Sequences, FiniteSets, TLC

\* ---- bounds of the model ------------------------------------------------
MaxLoggers == 3      \* Logger objects the program constructs
MaxStreams == 2      \* distinct std::ostream objects (stream 1 is std::cout)
MaxCalls   == 2      \* setter / Flush / copy-assignment calls
MaxStmts   == 1      \* log statements and assertions executed
MaxCopies  == 1      \* LogSink temporaries a build materialises per statement

\* ---- program constants --------------------------------------------------
LEVEL_TRACE   == 0
LEVEL_DEBUG   == 1
LEVEL_INFO    == 2
LEVEL_WARNING == 3
LEVEL_ERROR   == 4
LEVEL_FATAL   == 5

LogLevel == LEVEL_TRACE .. LEVEL_FATAL

NoLogger   == 0      \* the null Logger*
NullStream == 0      \* the null std::ostream*
Cout       == 1      \* &std::cout

LoggerIds == 1 .. MaxLoggers
Streams   == 1 .. MaxStreams

\* "[%F:%C %P] %N %L: %S", as the sequence of its tokens and literal pieces
DefaultFormat ==
    <<"[", "%F", ":", "%C", " ", "%P", "] ", "%N", " ", "%L", ": ", "%S">>

\* a second template a caller may install with Format(string)
OtherFormat == <<"%N", "|", "%L", "|", "%S">>

Formats == {DefaultFormat, OtherFormat}

\* call sites (__FILE__, __LINE__, __FUNCTION__) of the log statements
Sites == {[file |-> "a.cc", line |-> "10", func |-> "f"]}

\* the fragments streamed into the sink by `_easy_sink << message`
Messages == {<<"x=", "5">>}

VARIABLES
    n,          \* number of Logger objects constructed so far (ids 1..n)
    name,       \* Logger::_name
    parent,     \* Logger::_parent
    level,      \* Logger::_level
    stream,     \* Logger::_stream
    format,     \* Logger::_format
    out,        \* per stream: the lines written to it, in order
    flushedLen, \* per stream: how many of its lines a flush() has pushed out
    pc,         \* position of the (single) thread of the program
    cur,        \* the log statement the last macro executed (NoStmt if none)
    copies,     \* LogSink temporaries this build materialises (copy elision)
    calls,      \* setter / Flush / copy-assignment calls made
    stmts       \* log statements executed

vars == <<n, name, parent, level, stream, format, out, flushedLen, pc, cur,
          copies, calls, stmts>>

Live == 1 .. n

\* no log statement executed yet
NoStmt == [logger |-> NoLogger, level |-> LEVEL_TRACE, accepted |-> FALSE,
           lines |-> 0, dest |-> NullStream, site |-> <<>>, text |-> <<>>]

\* ---- pure helpers -------------------------------------------------------

\* severity-to-text mapping used for %L
LevelText(L) ==
    CASE L = LEVEL_TRACE   -> "TRACE"
      [] L = LEVEL_DEBUG   -> "DEBUG"
      [] L = LEVEL_INFO    -> "INFO"
      [] L = LEVEL_WARNING -> "WARNING"
      [] L = LEVEL_ERROR   -> "ERROR"
      [] L = LEVEL_FATAL   -> "FATAL"

RECURSIVE Concat(_)
\* operator<<(LogSink&, const T&): fragments are appended to _os in order
Concat(frags) ==
    IF frags = <<>> THEN <<>>
    ELSE <<Head(frags)>> \o Concat(Tail(frags))

\* one token of the template rendered against the fields of the statement
RenderToken(tok, L, origin, site, text) ==
    CASE tok = "%F" -> <<site.file>>
      [] tok = "%C" -> <<site.line>>
      [] tok = "%P" -> <<site.func>>
      [] tok = "%N" -> <<name[origin]>>
      [] tok = "%L" -> <<LevelText(L)>>
      [] tok = "%S" -> text
      [] OTHER      -> <<tok>>

RECURSIVE Render(_, _, _, _, _)
Render(fmt, L, origin, site, text) ==
    IF fmt = <<>> THEN <<>>
    ELSE RenderToken(Head(fmt), L, origin, site, text)
             \o Render(Tail(fmt), L, origin, site, text)

\* ---- Logger ---------------------------------------------------------------

\* IsLevel with the comparison made strict
IsLevelFrom_Strict(l, L, fuel) ==
    LET RECURSIVE F(_, _)
        F(x, k) == IF level[x] < L THEN "true"
                   ELSE IF parent[x] = NoLogger THEN "false"
                   ELSE IF k = 0 THEN "diverges"
                   ELSE F(parent[x], k - 1)
    IN  F(l, fuel)

\* IsLevel that never consults the parent
IsLevelFrom_OwnOnly(l, L, fuel) ==
    IF level[l] <= L THEN "true" ELSE "false"

\* IsLevel that wants every node of the chain to accept
IsLevelFrom_AllAccept(l, L, fuel) ==
    LET RECURSIVE F(_, _)
        F(x, k) == IF level[x] > L THEN "false"
                   ELSE IF parent[x] = NoLogger THEN "true"
                   ELSE IF k = 0 THEN "diverges"
                   ELSE F(parent[x], k - 1)
    IN  F(l, fuel)

RECURSIVE IsLevelFrom(_, _, _)
\* Logger::IsLevel: "checks if this Logger instance or any of its parents
\* are willing to log a message of a given log level".  `fuel` bounds the
\* recursion: a parent chain that is still not exhausted after n hops is
\* cyclic and the real recursion never returns.
IsLevelFrom(l, L, fuel) ==
    IF level[l] <= L THEN "true"
    ELSE IF parent[l] = NoLogger THEN "false"
    ELSE IF fuel = 0 THEN "diverges"
    ELSE IsLevelFrom(parent[l], L, fuel - 1)

IsLevel(l, L) == IsLevelFrom(l, L, n)

RECURSIVE WriteLogRoot(_, _)
\* Logger::WriteLog forwarding: a logger with a parent delegates the call
\* unchanged to the parent; the logger without parent writes.  NoLogger is
\* returned when the chain is cyclic (the forwarding never ends).
WriteLogRoot(l, fuel) ==
    IF parent[l] = NoLogger THEN l
    ELSE IF fuel = 0 THEN NoLogger
    ELSE WriteLogRoot(parent[l], fuel - 1)

\* WriteLog rendering the template of the logger the statement was made on
WriteLogFormat_Origin(root, origin) == format[origin]

\* the template WriteLog renders at the logger that owns the destination
WriteLogFormat(root, origin) == format[root]

\* the logger whose name is substituted for %N
WriteLogName(root, origin) == origin

\* the line WriteLog writes at `root`, newline-terminated
WriteLogLine(root, L, origin, site, text) ==
    Render(WriteLogFormat(root, origin), L, WriteLogName(root, origin),
           site, text) \o <<"\n">>

\* the stream a WriteLog call issued on l ends up writing to
WriteLogStream(l) == stream[WriteLogRoot(l, n)]

\* ~LogSink of every instance of one statement, in destruction order: the
\* temporaries materialised by Logger::Log's return (their _os is empty,
\* the copy constructor does not copy it) at the end of the declaration of
\* _easy_sink, then _easy_sink itself with the streamed text.
SinkWrites(l, L, site, frags, k) ==
    LET root == WriteLogRoot(l, n)
    IN  [i \in 1 .. k |-> WriteLogLine(root, L, l, site, <<>>)]
            \o <<WriteLogLine(root, L, l, site, Concat(frags))>>

\* ---- initial state ------------------------------------------------------

Init ==
    /\ n = 0
    /\ name = [l \in LoggerIds |-> ""]
    /\ parent = [l \in LoggerIds |-> NoLogger]
    /\ level = [l \in LoggerIds |-> LEVEL_INFO]
    /\ stream = [l \in LoggerIds |-> NullStream]
    /\ format = [l \in LoggerIds |-> DefaultFormat]
    /\ out = [s \in Streams |-> <<>>]
    /\ flushedLen = [s \in Streams |-> 0]
    /\ pc = "idle"
    /\ cur = NoStmt
    /\ copies \in 0 .. MaxCopies
    /\ calls = 0
    /\ stmts = 0

\* ---- construction and copying -------------------------------------------

\* Logger(const std::string& name)
NewLogger ==
    /\ pc = "idle"
    /\ n < MaxLoggers
    /\ n' = n + 1
    /\ name' = [name EXCEPT ![n + 1] = ToString(n + 1)]
    /\ parent' = [parent EXCEPT ![n + 1] = NoLogger]
    /\ level' = [level EXCEPT ![n + 1] = LEVEL_INFO]
    /\ stream' = [stream EXCEPT ![n + 1] = Cout]
    /\ format' = [format EXCEPT ![n + 1] = DefaultFormat]
    /\ UNCHANGED <<out, flushedLen, pc, cur, copies, calls, stmts>>

\* a child constructor that initialises _stream like the root constructor
NewChild_WithStream(p) ==
    /\ pc = "idle"
    /\ n < MaxLoggers
    /\ p \in Live
    /\ n' = n + 1
    /\ name' = [name EXCEPT ![n + 1] = ToString(n + 1)]
    /\ parent' = [parent EXCEPT ![n + 1] = p]
    /\ level' = [level EXCEPT ![n + 1] = LEVEL_INFO]
    /\ stream' = [stream EXCEPT ![n + 1] = Cout]
    /\ format' = [format EXCEPT ![n + 1] = DefaultFormat]
    /\ UNCHANGED <<out, flushedLen, pc, cur, copies, calls, stmts>>

\* Logger(const std::string& name, Logger& parent)
NewChild(p) ==
    /\ pc = "idle"
    /\ n < MaxLoggers
    /\ p \in Live
    /\ n' = n + 1
    /\ name' = [name EXCEPT ![n + 1] = ToString(n + 1)]
    /\ parent' = [parent EXCEPT ![n + 1] = p]
    /\ level' = [level EXCEPT ![n + 1] = LEVEL_INFO]
    /\ stream' = [stream EXCEPT ![n + 1] = NullStream]
    /\ format' = [format EXCEPT ![n + 1] = DefaultFormat]
    /\ UNCHANGED <<out, flushedLen, pc, cur, copies, calls, stmts>>

\* the implicitly declared copy constructor: Logger c(src)
CopyConstruct(src) ==
    /\ pc = "idle"
    /\ n < MaxLoggers
    /\ src \in Live
    /\ n' = n + 1
    /\ name' = [name EXCEPT ![n + 1] = name[src]]
    /\ parent' = [parent EXCEPT ![n + 1] = parent[src]]
    /\ level' = [level EXCEPT ![n + 1] = level[src]]
    /\ stream' = [stream EXCEPT ![n + 1] = stream[src]]
    /\ format' = [format EXCEPT ![n + 1] = format[src]]
    /\ UNCHANGED <<out, flushedLen, pc, cur, copies, calls, stmts>>

\* the implicitly declared copy assignment: dst = src
CopyAssign(dst, src) ==
    /\ pc = "idle"
    /\ calls < MaxCalls
    /\ dst \in Live /\ src \in Live /\ dst # src
    /\ name' = [name EXCEPT ![dst] = name[src]]
    /\ parent' = [parent EXCEPT ![dst] = parent[src]]
    /\ level' = [level EXCEPT ![dst] = level[src]]
    /\ stream' = [stream EXCEPT ![dst] = stream[src]]
    /\ format' = [format EXCEPT ![dst] = format[src]]
    /\ calls' = calls + 1
    /\ UNCHANGED <<n, out, flushedLen, pc, cur, copies, stmts>>

\* ---- setters ------------------------------------------------------------

\* LogLevel Level(LogLevel level) { return _level = level; }
SetLevel(l, L) ==
    /\ pc = "idle"
    /\ calls < MaxCalls
    /\ l \in Live
    /\ level' = [level EXCEPT ![l] = L]
    /\ calls' = calls + 1
    /\ UNCHANGED <<n, name, parent, stream, format, out, flushedLen, pc, cur,
                   copies, stmts>>

\* std::ostream& Stream(std::ostream& stream): "set the underlying stream"
SetStream(l, s) ==
    /\ pc = "idle"
    /\ calls < MaxCalls
    /\ l \in Live
    /\ stream' = [stream EXCEPT ![l] = s]
    /\ calls' = calls + 1
    /\ UNCHANGED <<n, name, parent, level, format, out, flushedLen, pc, cur,
                   copies, stmts>>

\* const std::string& Format(const std::string& format)
SetFormat(l, f) ==
    /\ pc = "idle"
    /\ calls < MaxCalls
    /\ l \in Live
    /\ format' = [format EXCEPT ![l] = f]
    /\ calls' = calls + 1
    /\ UNCHANGED <<n, name, parent, level, stream, out, flushedLen, pc, cur,
                   copies, stmts>>

\* the effect of `_stream->flush()` on logger l: with a stream, everything
\* written to it is pushed out; with the null pointer of a child the call
\* is undefined (typically a crash, or a call that does nothing).
FlushEffect(l, next) ==
    IF stream[l] # NullStream
    THEN /\ flushedLen' = [flushedLen EXCEPT ![stream[l]] = Len(out[stream[l]])]
         /\ pc' = next
    ELSE /\ flushedLen' = flushedLen
         /\ pc' \in {"crashed", next}

\* void Flush() { _stream->flush(); }
Flush(l) ==
    /\ pc = "idle"
    /\ calls < MaxCalls
    /\ l \in Live
    /\ FlushEffect(l, "idle")
    /\ calls' = calls + 1
    /\ UNCHANGED <<n, name, parent, level, stream, format, out, cur, copies,
                   stmts>>

\* ---- log statements -----------------------------------------------------

\* EASY_LOG(logger, level, message) up to and including the end of the
\* inner scope (lines 242-246): the IsLevel test, Logger::Log, the copies
\* of the returned LogSink, the streaming into _easy_sink and the
\* destructors.  A Fatal statement continues with FatalFlush / FatalAbort.
EasyLogBody(l, L, site, frags) ==
    LET r    == IsLevel(l, L)
        root == WriteLogRoot(l, n)
        w    == SinkWrites(l, L, site, frags, copies)
    IN  /\ stmts' = stmts + 1
        /\ IF r = "false"
           THEN /\ cur' = [logger |-> l, level |-> L, accepted |-> FALSE,
                           lines |-> 0, dest |-> NullStream,
                           site |-> site, text |-> Concat(frags)]
                /\ pc' = "idle"
                /\ out' = out
           ELSE IF r = "diverges" \/ root = NoLogger
           THEN /\ cur' = [logger |-> l, level |-> L,
                           accepted |-> (r = "true"),
                           lines |-> 0, dest |-> NullStream,
                           site |-> site, text |-> Concat(frags)]
                /\ pc' = "diverged"
                /\ out' = out
           ELSE /\ cur' = [logger |-> l, level |-> L, accepted |-> TRUE,
                           lines |-> Len(w), dest |-> WriteLogStream(l),
                           site |-> site, text |-> Concat(frags)]
                /\ out' = [out EXCEPT ![WriteLogStream(l)] = @ \o w]
                /\ pc' = IF L = LEVEL_FATAL THEN "fatal_flush" ELSE "idle"
        /\ UNCHANGED <<n, name, parent, level, stream, format, flushedLen,
                       copies, calls>>

\* LOG_TRACE .. LOG_FATAL
EasyLog(l, L, site, frags) ==
    /\ pc = "idle"
    /\ stmts < MaxStmts
    /\ l \in Live
    /\ EasyLogBody(l, L, site, frags)

\* EASY_ASSERT(logger, expr, msg) of a build without NDEBUG (with NDEBUG the
\* macro expands to an empty statement): nothing when expr holds, otherwise
\* EASY_LOG(logger, LEVEL_FATAL, "ASSERTION FAILED: " #expr ": " msg)
EasyAssert(l, expr, site) ==
    /\ pc = "idle"
    /\ stmts < MaxStmts
    /\ l \in Live
    /\ IF expr
       THEN /\ stmts' = stmts + 1
            /\ cur' = NoStmt
            /\ UNCHANGED <<n, name, parent, level, stream, format, out,
                           flushedLen, pc, copies, calls>>
       ELSE EasyLogBody(l, LEVEL_FATAL, site,
                        <<"ASSERTION FAILED: ", "expr", ": ", "msg">>)

\* (logger).Flush() of a Fatal statement, line 248
FatalFlush ==
    /\ pc = "fatal_flush"
    /\ FlushEffect(cur.logger, "fatal_abort")
    /\ UNCHANGED <<n, name, parent, level, stream, format, out, cur, copies,
                   calls, stmts>>

\* std::abort() of a Fatal statement, line 249
FatalAbort ==
    /\ pc = "fatal_abort"
    /\ pc' = "aborted"
    /\ UNCHANGED <<n, name, parent, level, stream, format, out, flushedLen,
                   cur, copies, calls, stmts>>

Next ==
    \/ NewLogger
    \/ \E p \in LoggerIds : NewChild(p)
    \/ \E src \in LoggerIds : CopyConstruct(src)
    \/ \E dst, src \in LoggerIds : CopyAssign(dst, src)
    \/ \E l \in LoggerIds, L \in LogLevel : SetLevel(l, L)
    \/ \E l \in LoggerIds, s \in Streams : SetStream(l, s)
    \/ \E l \in LoggerIds, f \in Formats : SetFormat(l, f)
    \/ \E l \in LoggerIds : Flush(l)
    \/ \E l \in LoggerIds, L \in LogLevel, site \in Sites, frags \in Messages :
          EasyLog(l, L, site, frags)
    \/ \E l \in LoggerIds, expr \in BOOLEAN, site \in Sites :
          EasyAssert(l, expr, site)
    \/ FatalFlush
    \/ FatalAbort

Spec == Init /\ [][Next]_vars

\* ---- the hierarchy and its configuration, without log statements --------

NextConfig ==
    \/ NewLogger
    \/ \E p \in LoggerIds : NewChild(p)
    \/ \E src \in LoggerIds : CopyConstruct(src)
    \/ \E dst, src \in LoggerIds : CopyAssign(dst, src)
    \/ \E l \in LoggerIds, L \in LogLevel : SetLevel(l, L)
    \/ \E l \in LoggerIds, s \in Streams : SetStream(l, s)
    \/ \E l \in LoggerIds, f \in Formats : SetFormat(l, f)
    \/ \E l \in LoggerIds : Flush(l)

SpecConfig == Init /\ [][NextConfig]_vars

\* ---- level filtering: thresholds, copies of loggers, log statements -----

NextFilter ==
    \/ NewLogger
    \/ \E p \in LoggerIds : NewChild(p)
    \/ \E dst, src \in LoggerIds : CopyAssign(dst, src)
    \/ \E l \in LoggerIds, L \in LogLevel : SetLevel(l, L)
    \/ \E l \in LoggerIds, L \in LogLevel, site \in Sites, frags \in Messages :
          EasyLog(l, L, site, frags)
    \/ \E l \in LoggerIds, expr \in BOOLEAN, site \in Sites :
          EasyAssert(l, expr, site)
    \/ FatalFlush
    \/ FatalAbort

SpecFilter == Init /\ [][NextFilter]_vars

\* ---- writing: destinations, templates, log statements -------------------

NextWrite ==
    \/ NewLogger
    \/ \E p \in LoggerIds : NewChild(p)
    \/ \E dst, src \in LoggerIds : CopyAssign(dst, src)
    \/ \E l \in LoggerIds, s \in Streams : SetStream(l, s)
    \/ \E l \in LoggerIds, f \in Formats : SetFormat(l, f)
    \/ \E l \in LoggerIds : Flush(l)
    \/ \E l \in LoggerIds, L \in LogLevel, site \in Sites, frags \in Messages :
          EasyLog(l, L, site, frags)
    \/ FatalFlush
    \/ FatalAbort

SpecWrite == Init /\ [][NextWrite]_vars

\* ---- properties ---------------------------------------------------------

RECURSIVE Closure(_)
\* the loggers reachable from the set S by following _parent
Closure(S) ==
    LET T == S \cup ({parent[x] : x \in S} \ {NoLogger})
    IN  IF T = S THEN S ELSE Closure(T)

\* a logger together with all its ancestors
Chain(l) == Closure({l})

\* this step executed an EASY_LOG (log statement or failed assertion)
LogStep == stmts' = stmts + 1 /\ cur'.logger # NoLogger

\* ... and the statement ran to the end of its inner scope
LogStepDone == LogStep /\ pc' # "diverged"

\* this step appended at least one line to some stream
Written == \E s \in Streams : Len(out'[s]) > Len(out[s])

\* the lines this step appended to stream s
Appended(s) == SubSeq(out'[s], Len(out[s]) + 1, Len(out'[s]))

\* the line of a statement as the two templates spell it out
ExpectedLine(fmt, L, nm, site, text) ==
    IF fmt = DefaultFormat
    THEN <<"[", site.file, ":", site.line, " ", site.func, "] ", nm, " ",
           LevelText(L), ": ">> \o text \o <<"\n">>
    ELSE <<nm, "|", LevelText(L), "|">> \o text \o <<"\n">>

\* the loggers without parent among l and its ancestors
RootsOf(l) == {a \in Chain(l) : parent[a] = NoLogger}

C4_OneLineAtRoot ==
    [][LogStep /\ cur'.accepted =>
         \E r \in RootsOf(cur'.logger) :
            /\ Appended(stream[r]) =
                  <<ExpectedLine(format[r], cur'.level, name[cur'.logger],
                                 cur'.site, cur'.text)>>
            /\ \A s \in Streams \ {stream[r]} : out'[s] = out[s]]_vars

\* C5: the line written for a message is rendered with the template of the
\* root logger reached by forwarding, whatever template the originating
\* child or the loggers in between hold.
C5_RootFormat ==
    [][LogStepDone /\ Written =>
         \E r \in RootsOf(cur'.logger) :
            LET new == Appended(stream[r])
            IN  /\ new # <<>>
                /\ new[Len(new)] =
                      ExpectedLine(format[r], cur'.level, name[cur'.logger],
                                   cur'.site, cur'.text)
                /\ \A i \in 1 .. Len(new) - 1 :
                      new[i] = ExpectedLine(format[r], cur'.level,
                                            name[cur'.logger], cur'.site, <<>>)]_vars

\* C5 witness: a message logged on a child whose template differs from the
\* root's has been written, in the root's template.
C5_Witness ==
    /\ cur.logger # NoLogger
    /\ parent[cur.logger] # NoLogger
    /\ pc = "idle"
    /\ cur.lines > 0
    /\ \E r \in RootsOf(cur.logger) :
          /\ format[r] # format[cur.logger]
          /\ stream[r] = cur.dest
          /\ out[cur.dest][Len(out[cur.dest])] =
                ExpectedLine(format[r], cur.level, name[cur.logger],
                             cur.site, cur.text)

\* C6 (as stated, its flush and termination part): an accepted Fatal
\* statement whose write returns has written, then flushes the destination
\* the line was written to, then aborts, with no other step in between; a
\* rejected Fatal statement writes nothing and does not terminate.
C6_FatalWriteFlushAbort ==
    [][/\ (LogStepDone /\ cur'.level = LEVEL_FATAL /\ cur'.accepted) =>
              (Written /\ pc' = "fatal_flush")
       /\ (LogStep /\ cur'.level = LEVEL_FATAL /\ ~cur'.accepted) =>
              (~Written /\ pc' = "idle")
       /\ (pc = "fatal_flush") =>
              /\ pc' = "fatal_abort"
              /\ out' = out
              /\ flushedLen'[cur.dest] = Len(out[cur.dest])
       /\ (pc = "fatal_abort") => (pc' = "aborted" /\ out' = out)]_vars

\* C7 (as stated): of all LogSink instances created for one statement
\* exactly one calls WriteLog, with the full accumulated message; a copy
\* never causes a second or empty-message write.
C7_OneWritePerStatement ==
    [][(LogStepDone /\ cur'.accepted) =>
          /\ cur'.lines = 1
          /\ \A s \in Streams : \A i \in 1 .. Len(Appended(s)) :
                Appended(s)[i] # ExpectedLine(format[WriteLogRoot(cur'.logger, n)],
                                              cur'.level, name[cur'.logger],
                                              cur'.site, <<>>)]_vars

\* C8 (as stated): in every reachable state a Logger with a parent holds no
\* destination and a Logger without a parent holds one.
C8_DestinationIffRoot ==
    \A l \in Live : (parent[l] = NoLogger) <=> (stream[l] # NullStream)

\* no logger with a parent holds a destination
ChildrenHoldNoStream == \A l \in Live : parent[l] # NoLogger => stream[l] = NullStream

\* this step is Stream(ostream) called on a logger that has a parent
SetStreamOnChild ==
    \E l \in Live : /\ parent[l] # NoLogger
                    /\ stream'[l] # stream[l]
                    /\ parent' = parent /\ n' = n

\* C8 (amended): a Logger without a parent always holds a destination; a
\* Logger with a parent holds none when constructed, and while no logger
\* with a parent holds a destination every operation but Stream(ostream)
\* called on a logger with a parent keeps it so: that setter stores the
\* stream on any logger.
C8_DestinationOfRoots ==
    /\ [](\A l \in Live : parent[l] = NoLogger => stream[l] # NullStream)
    /\ [][(ChildrenHoldNoStream /\ ~SetStreamOnChild) =>
             ChildrenHoldNoStream']_vars

\* C8 witness: after setter calls, a root holds a stream other than the
\* console while its child holds none.
C8_Witness ==
    /\ calls > 0
    /\ \E l \in Live : /\ parent[l] # NoLogger
                       /\ stream[l] = NullStream
                       /\ stream[parent[l]] \notin {NullStream, Cout}
                       /\ parent[parent[l]] = NoLogger

\* C9 (as stated): the hierarchy is always a forest: no logger is its own
\* ancestor and walking parent links from any logger ends at a root.
C9_Forest ==
    \A l \in Live :
        /\ parent[l] # NoLogger => l \notin Chain(parent[l])
        /\ WriteLogRoot(l, n) # NoLogger

\* C10 (as stated): IsLevel(LEVEL_FATAL) is true for every logger, and every
\* Fatal statement or failed assertion whose write returns is on its way
\* to std::abort or has reached it.
C10_FatalAlwaysAborts ==
    /\ \A l \in Live : IsLevel(l, LEVEL_FATAL) = "true"
    /\ (cur.logger # NoLogger /\ cur.level = LEVEL_FATAL /\ pc # "diverged") =>
          pc \in {"fatal_flush", "fatal_abort", "aborted"}

====
